---- MODULE Spec2Model ----
(***************************************************************************)
(* Model of the two build-time scripts of the repository:                  *)
(*   TESTING_GUIDES/build-html-guide.py  (guide identifiers, content map,  *)
(*                                         page emission, and the script   *)
(*                                         of the emitted page)            *)
(*   create-tester-package.py            (staging tree and zip archive)    *)
(* Strings are sequences of one-character strings, so that str.replace and *)
(* str.lower are computed character by character as Python computes them.  *)
(***************************************************************************)
EXTENDS Integers, Sequences, FiniteSets, TLC

VARIABLES
    idFile, navId, secId, keyId,
    guides, disk, navHtml, sections, markdownData, buildpc,
    content, escaped, cooked, escpc,
    distExists, distNodes, inputs, stagingExists, stagingNodes, execBits,
    zipExists, zipOpen, zipEntries, zipGen, staging0, zip0, stagedAtZip,
    pkgpc, result,
    pagepc, hash, pendingHash, activeSections, activeLinks, activeOther,
    innerHTML, checked, storage, renderCount, shown, calls, last, events

idVars == <<idFile, navId, secId, keyId>>
buildVars == <<guides, disk, navHtml, sections, markdownData, buildpc>>
escVars == <<content, escaped, cooked, escpc>>
pkgVars == <<distExists, distNodes, inputs, stagingExists, stagingNodes, execBits,
             zipExists, zipOpen, zipEntries, zipGen, staging0, zip0, stagedAtZip,
             pkgpc, result>>
pageVars == <<pagepc, hash, pendingHash, activeSections, activeLinks, activeOther,
              innerHTML, checked, storage, renderCount, shown, calls, last, events>>
vars == <<idVars, buildVars, escVars, pkgVars, pageVars>>

----------------------------------------------------------------------------
(* Bounds *)

MaxPieces == 3
MaxEntries == 2
MaxTextLen == 4

----------------------------------------------------------------------------
(* Python string primitives *)

\* s[i..] starts with old
StartsWithAt(s, old, i) ==
    /\ i + Len(old) - 1 <= Len(s)
    /\ \A k \in 1..Len(old) : s[i + k - 1] = old[k]

RECURSIVE ReplaceFrom(_, _, _, _)
ReplaceFrom(s, old, new, i) ==
    IF i > Len(s) THEN <<>>
    ELSE IF StartsWithAt(s, old, i)
         THEN new \o ReplaceFrom(s, old, new, i + Len(old))
         ELSE <<s[i]>> \o ReplaceFrom(s, old, new, i + 1)

\* str.replace(old, new) for a non-empty old: every non-overlapping
\* occurrence, scanning left to right
Replace(s, old, new) == ReplaceFrom(s, old, new, 1)

ToLower ==
    ("A" :> "a") @@ ("D" :> "d") @@ ("E" :> "e") @@ ("F" :> "f") @@
    ("M" :> "m") @@ ("R" :> "r") @@ ("S" :> "s") @@ ("T" :> "t") @@
    ("U" :> "u")

LowerChar(c) == IF c \in DOMAIN ToLower THEN ToLower[c] ELSE c

\* str.lower()
Lower(s) == [i \in 1..Len(s) |-> LowerChar(s[i])]

Contains(s, sub) == \E i \in 1..Len(s) : StartsWithAt(s, sub, i)

----------------------------------------------------------------------------
(* String literals of build-html-guide.py *)

MdExt == <<".", "m", "d">>
DotDotSlash == <<".", ".", "/">>
DotSlash == <<".", "/">>
Slash == <<"/">>
Dash == <<"-">>
FEATURE_TESTS_DIR == <<"F","E","A","T","U","R","E","_","T","E","S","T","S","/">>
FeatureDash == <<"f","e","a","t","u","r","e","-">>
FeatureTestsLower == <<"f","e","a","t","u","r","e","_","t","e","s","t","s">>
FeatureLower == <<"f","e","a","t","u","r","e">>

Categories == {"core", "feature_tests", "workflows"}

----------------------------------------------------------------------------
(* Identifier normalisation, as each of the three places computes it *)

\* generate_nav_html, core loop
nav_core_id(file) ==
    Lower(Replace(Replace(file, MdExt, <<>>), Slash, Dash))

\* generate_nav_html, feature_tests loop
nav_feature_id(file) ==
    Lower(Replace(Replace(Replace(file, MdExt, <<>>),
                          FEATURE_TESTS_DIR, FeatureDash), Slash, Dash))

\* generate_nav_html, workflows loop
nav_workflow_id(file) ==
    Lower(Replace(Replace(Replace(file, DotDotSlash, <<>>), MdExt, <<>>),
                  Slash, Dash))

nav_guide_id(category, file) ==
    CASE category = "core" -> nav_core_id(file)
      [] category = "feature_tests" -> nav_feature_id(file)
      [] category = "workflows" -> nav_workflow_id(file)

\* mutant: the chain without the final .lower()
base_guide_id_NoLower(file) ==
    Replace(Replace(Replace(Replace(file, MdExt, <<>>),
                            DotDotSlash, <<>>), DotSlash, <<>>),
            Slash, Dash)

\* the chain shared by generate_markdown_data and generate_html
base_guide_id(file) ==
    Lower(Replace(Replace(Replace(Replace(file, MdExt, <<>>),
                                  DotDotSlash, <<>>), DotSlash, <<>>),
                  Slash, Dash))

\* mutant: the feature branch (if category == 'feature') left out
guide_id_NoRewrite(category, file) == base_guide_id(file)

\* mutant: the key computed by the navigation's per-category chains
guide_id_PerCategory(category, file) == nav_guide_id(category, file)

\* generate_markdown_data: guide_id of one (category, guide)
guide_id(category, file) ==
    IF category = "feature_tests"
    THEN Replace(base_guide_id(file), FeatureTestsLower, FeatureLower)
    ELSE base_guide_id(file)

\* generate_html: id of the section emitted for one (category, guide)
section_id(category, file) ==
    IF category = "feature_tests"
    THEN Replace(base_guide_id(file), FeatureTestsLower, FeatureLower)
    ELSE base_guide_id(file)

----------------------------------------------------------------------------
(* Content assembly: read_file, escape_for_js, generate_markdown_data *)

\* Python values of read_file: None, or the text read
None == [none |-> TRUE, text |-> <<>>]
Some(text) == [none |-> FALSE, text |-> text]

\* truthiness of content in the test 'if content:'
Truthy(c) == ~c.none /\ c.text # <<>>

Backslash == <<"\\">>
\* the backtick character (a string may not hold it literally)
Backtick == <<"BACKTICK">>
DollarBrace == <<"$", "{">>

\* read_file(filepath) on the files of d; FileNotFoundError gives None
read_file(d, filepath) ==
    IF d[filepath].exists THEN Some(d[filepath].text) ELSE None

\* mutant: the backtick escaped before the backslash
escape_for_js_BacktickFirst(c) ==
    IF c.none THEN <<>>
    ELSE Replace(Replace(Replace(c.text, Backtick, Backslash \o Backtick),
                         Backslash, Backslash \o Backslash),
                 DollarBrace, Backslash \o DollarBrace)

escape_for_js(c) ==
    IF c.none THEN <<>>
    ELSE Replace(Replace(Replace(c.text, Backslash, Backslash \o Backslash),
                         Backtick, Backslash \o Backtick),
                 DollarBrace, Backslash \o DollarBrace)

\* all_guides: core, then feature_tests, then workflows, each in order
Tagged(category, files) ==
    [i \in 1..Len(files) |-> [category |-> category, file |-> files[i]]]

all_guides(g) ==
    Tagged("core", g.core) \o Tagged("feature_tests", g.feature_tests)
        \o Tagged("workflows", g.workflows)

\* mutant: a missing file is given a key with an empty text
markdown_entry_Placeholder(e, d) ==
    LET c == read_file(d, e.file)
    IN  << [key |-> guide_id(e.category, e.file), value |-> escape_for_js(c)] >>

\* body of the loop of generate_markdown_data: the key-and-text pairs
\* (none or one) appended for one entry
markdown_entry(e, d) ==
    LET c == read_file(d, e.file)
    IN  IF Truthy(c)
        THEN << [key |-> guide_id(e.category, e.file), value |-> escape_for_js(c)] >>
        ELSE <<>>

RECURSIVE MarkdownPairs(_, _, _)
MarkdownPairs(all, d, i) ==
    IF i > Len(all) THEN <<>>
    ELSE markdown_entry(all[i], d) \o MarkdownPairs(all, d, i + 1)

\* the pairs of the object literal markdownContent
generate_markdown_data(g, d) == MarkdownPairs(all_guides(g), d, 1)

\* a JavaScript object literal: a key is present if a pair names it, and a
\* repeated key keeps the value of its last pair
HasKey(pairs, k) == \E i \in 1..Len(pairs) : pairs[i].key = k

LastIndex(pairs, k) ==
    CHOOSE i \in 1..Len(pairs) :
        /\ pairs[i].key = k
        /\ \A j \in (i + 1)..Len(pairs) : pairs[j].key # k

ValueOf(pairs, k) == pairs[LastIndex(pairs, k)].value

\* generate_nav_html: one link per entry, href and data-guide
generate_nav_html(g) ==
    LET all == all_guides(g)
    IN  [i \in 1..Len(all) |->
            [href |-> nav_guide_id(all[i].category, all[i].file),
             data_guide |-> nav_guide_id(all[i].category, all[i].file)]]

WelcomeId == <<"w","e","l","c","o","m","e">>

\* generate_html: the welcome section, then one empty section per entry
guide_sections(g) ==
    LET all == all_guides(g)
    IN  << [id |-> WelcomeId, active |-> TRUE, empty |-> FALSE] >> \o
        [i \in 1..Len(all) |->
            [id |-> section_id(all[i].category, all[i].file),
             active |-> FALSE, empty |-> TRUE]]

----------------------------------------------------------------------------
(* Relative paths a guide entry may carry: concatenations of path pieces *)

README == <<"R","E","A","D","M","E">>

Pieces ==
    { DotDotSlash, DotSlash, FEATURE_TESTS_DIR, FeatureTestsLower \o Slash,
      README, MdExt, Slash, <<".">>, <<"a">> }

RECURSIVE PathsOf(_)
PathsOf(n) ==
    IF n = 0 THEN { <<>> }
    ELSE { p \o q : p \in Pieces, q \in PathsOf(n - 1) }

Paths == UNION { PathsOf(n) : n \in 1..MaxPieces }

----------------------------------------------------------------------------
(* Values of the variable groups a specification leaves alone *)

NoIds == [c \in {} |-> <<>>]

IdleId ==
    /\ idFile = <<>>
    /\ navId = NoIds
    /\ secId = NoIds
    /\ keyId = NoIds

IdleBuild ==
    /\ guides = [core |-> <<>>, feature_tests |-> <<>>, workflows |-> <<>>]
    /\ disk = <<>>
    /\ navHtml = <<>>
    /\ sections = <<>>
    /\ markdownData = <<>>
    /\ buildpc = "idle"

IdleEsc ==
    /\ content = <<>>
    /\ escaped = <<>>
    /\ cooked = <<>>
    /\ escpc = "idle"

IdlePkg ==
    /\ distExists = FALSE
    /\ distNodes = {}
    /\ inputs = {}
    /\ stagingExists = FALSE
    /\ stagingNodes = {}
    /\ execBits = {}
    /\ zipExists = FALSE
    /\ zipOpen = FALSE
    /\ zipEntries = {}
    /\ zipGen = "none"
    /\ staging0 = [exists |-> FALSE, nodes |-> {}]
    /\ zip0 = [exists |-> FALSE, entries |-> {}, gen |-> "none"]
    /\ stagedAtZip = {}
    /\ pkgpc = "idle"
    /\ result = "idle"

IdlePage ==
    /\ pagepc = "idle"
    /\ hash = <<>>
    /\ pendingHash = 0
    /\ activeSections = {}
    /\ activeLinks = {}
    /\ activeOther = {}
    /\ innerHTML = <<>>
    /\ checked = <<>>
    /\ storage = <<>>
    /\ renderCount = <<>>
    /\ shown = <<>>
    /\ calls = 0
    /\ last = [kind |-> "none", id |-> <<>>, index |-> 0]
    /\ events = 0

----------------------------------------------------------------------------
(* SpecId: one relative path, registered in one category after another;    *)
(* each registration computes the navigation identifier, the section id    *)
(* and the content-map key of the entry.                                   *)

InitId ==
    /\ idFile \in Paths
    /\ navId = NoIds
    /\ secId = NoIds
    /\ keyId = NoIds
    /\ IdleBuild /\ IdleEsc /\ IdlePkg /\ IdlePage

WithId(ids, category, id) ==
    [c \in DOMAIN ids \cup {category} |-> IF c = category THEN id ELSE ids[c]]

ProcessEntry(category) ==
    /\ category \notin DOMAIN keyId
    /\ navId' = WithId(navId, category, nav_guide_id(category, idFile))
    /\ secId' = WithId(secId, category, section_id(category, idFile))
    /\ keyId' = WithId(keyId, category, guide_id(category, idFile))
    /\ UNCHANGED <<idFile, buildVars, escVars, pkgVars, pageVars>>

NextId == \E category \in Categories : ProcessEntry(category)

SpecId == InitId /\ [][NextId]_vars

----------------------------------------------------------------------------
(* Claims about the identifier (SpecId) *)

StripPrefix(s, p) ==
    IF StartsWithAt(s, p, 1) THEN SubSeq(s, Len(p) + 1, Len(s)) ELSE s

StripSuffix(s, p) ==
    IF Len(s) >= Len(p) /\ StartsWithAt(s, p, Len(s) - Len(p) + 1)
    THEN SubSeq(s, 1, Len(s) - Len(p))
    ELSE s

\* a path that ends in .md, holds no other ".md", and holds "./" or "../"
\* only as its leading prefix
WellFormed(file) ==
    /\ Len(file) >= Len(MdExt)
    /\ \A i \in 1..Len(file) :
         StartsWithAt(file, MdExt, i) => i = Len(file) - Len(MdExt) + 1
    /\ StartsWithAt(file, MdExt, Len(file) - Len(MdExt) + 1)
    /\ \A i \in 1..Len(file) :
         StartsWithAt(file, DotSlash, i) =>
             \/ i = 1
             \/ i = 2 /\ StartsWithAt(file, DotDotSlash, 1)

\* C1: for every entry, in every category and for every relative path, the
\* identifier in the navigation link equals the section id and equals the
\* content-map key (stated here for the well-formed paths alone).
C1_NavSectionKeyAgree ==
    \A c \in DOMAIN keyId :
        WellFormed(idFile) => navId[c] = secId[c] /\ secId[c] = keyId[c]

\* the directory a category's entries live in
CategoryDir(category) ==
    IF category = "feature_tests" THEN FEATURE_TESTS_DIR ELSE <<>>

\* the identifier as the four rules read: strip the leading prefix ("../",
\* "./", the category's directory in either case), strip the trailing .md,
\* replace '/' by '-', lowercase
RulesId(category, file) ==
    LET plain == StripPrefix(StripPrefix(file, DotDotSlash), DotSlash)
        stripped == IF StartsWithAt(Lower(plain), Lower(CategoryDir(category)), 1)
                    THEN SubSeq(plain, Len(CategoryDir(category)) + 1, Len(plain))
                    ELSE plain
    IN  Lower(Replace(StripSuffix(stripped, MdExt), Slash, Dash))

\* C2 as stated: the identifier is the result of the four rules applied in
\* order (prefix stripped, .md stripped, '/' replaced, lowercased); stated
\* here for the well-formed paths alone.
C2_FourRulesInOrder ==
    \A c \in DOMAIN keyId : WellFormed(idFile) => keyId[c] = RulesId(c, idFile)

\* strip a leading "../" or "./", strip the trailing .md, replace '/' by
\* '-', lowercase; a feature_tests entry then has "feature_tests" rewritten
\* to "feature"
RewritingId(category, file) ==
    LET stripped == StripPrefix(StripPrefix(file, DotDotSlash), DotSlash)
        plain == Lower(Replace(StripSuffix(stripped, MdExt), Slash, Dash))
    IN  IF category = "feature_tests"
        THEN Replace(plain, FeatureTestsLower, FeatureLower)
        ELSE plain

\* C2 amended: for a well-formed path the content-map key and the section
\* id are the path with its leading "../" or "./" stripped, its trailing
\* .md stripped, '/' replaced by '-', lowercased, and, in feature_tests,
\* "feature_tests" rewritten to "feature" (the directory is not stripped).
C2_RewritesFeaturePrefix ==
    \A c \in DOMAIN keyId :
        WellFormed(idFile) =>
            /\ keyId[c] = RewritingId(c, idFile)
            /\ secId[c] = RewritingId(c, idFile)

C2_Witness ==
    /\ "feature_tests" \in DOMAIN keyId
    /\ idFile = FEATURE_TESTS_DIR \o README \o MdExt
    /\ WellFormed(idFile)
    /\ keyId["feature_tests"] = FeatureDash \o Lower(README)

\* C3 as stated: entries with the same relative path receive the same
\* identifier whatever their category (stated here for the well-formed
\* paths alone).
C3_SameIdInEveryCategory ==
    \A c1, c2 \in DOMAIN keyId : WellFormed(idFile) => keyId[c1] = keyId[c2]

\* C3 amended: the identifier depends on the path and on whether the
\* category is feature_tests: core and workflows agree, and the
\* feature_tests identifier is theirs with "feature_tests" rewritten to
\* "feature", so it is the same unless the normalised path holds
\* "feature_tests".
C3_SameIdUpToFeatureRewrite ==
    \A c1, c2 \in DOMAIN keyId :
        /\ (c1 # "feature_tests" /\ c2 # "feature_tests") => keyId[c1] = keyId[c2]
        /\ (c1 = "feature_tests" /\ c2 # "feature_tests") =>
              /\ keyId[c1] = Replace(keyId[c2], FeatureTestsLower, FeatureLower)
              /\ ~Contains(keyId[c2], FeatureTestsLower) => keyId[c1] = keyId[c2]

C3_Witness ==
    /\ DOMAIN keyId = Categories
    /\ Contains(idFile, DotDotSlash)
    /\ keyId["core"] = keyId["workflows"]
    /\ keyId["feature_tests"] # keyId["core"]

IsUpper(ch) == ch \in DOMAIN ToLower

NoUpperNoSlash(id) == \A i \in 1..Len(id) : ~IsUpper(id[i]) /\ id[i] # "/"

\* C4: every derived identifier is free of uppercase characters and of
\* '/', and the second computation of it from the same path (the section
\* id) gives the identifier the first gave (the content-map key).
C4_LowercaseNoSeparatorStable ==
    \A c \in DOMAIN keyId :
        /\ NoUpperNoSlash(keyId[c])
        /\ NoUpperNoSlash(secId[c])
        /\ NoUpperNoSlash(navId[c])
        /\ secId[c] = keyId[c]

C4_Witness ==
    /\ DOMAIN keyId = Categories
    /\ \E i \in 1..Len(idFile) : IsUpper(idFile[i])
    /\ Contains(idFile, Slash)
    /\ Contains(idFile, MdExt)

----------------------------------------------------------------------------
(* SpecBuild: one run of generate_html over a registry and a docs tree *)

UpperA == <<"A", ".", "m", "d">>
LowerA == <<"a", ".", "m", "d">>
FeatureA == FEATURE_TESTS_DIR \o LowerA
ReadmeMd == README \o MdExt

BuildFiles == { UpperA, LowerA, FeatureA, ReadmeMd }

FileTexts == { <<>>, <<"a">>, Backtick \o DollarBrace }

RECURSIVE SeqsOf(_, _)
SeqsOf(S, n) ==
    IF n = 0 THEN { <<>> }
    ELSE { <<x>> \o q : x \in S, q \in SeqsOf(S, n - 1) }

SeqsUpTo(S, n) == UNION { SeqsOf(S, k) : k \in 0..n }

Registries ==
    { g \in [core : SeqsUpTo(BuildFiles, MaxEntries),
             feature_tests : SeqsUpTo(BuildFiles, MaxEntries),
             workflows : SeqsUpTo(BuildFiles, MaxEntries)] :
        Len(g.core) + Len(g.feature_tests) + Len(g.workflows) \in 1..MaxEntries }

RegisteredFiles(g) == { all_guides(g)[i].file : i \in 1..Len(all_guides(g)) }

Absent == [exists |-> FALSE, text |-> <<>>]

\* docs trees: a registered file is absent or holds one of the texts
DiskStates(g) ==
    { d \in [BuildFiles -> {Absent} \cup { [exists |-> TRUE, text |-> t] : t \in FileTexts }] :
        \A f \in BuildFiles \ RegisteredFiles(g) : d[f] = Absent }

InitBuild ==
    /\ guides \in Registries
    /\ disk \in DiskStates(guides)
    /\ navHtml = <<>>
    /\ sections = <<>>
    /\ markdownData = <<>>
    /\ buildpc = "start"
    /\ IdleId /\ IdleEsc /\ IdlePkg /\ IdlePage

\* html += generate_nav_html(GUIDES)
EmitNav ==
    /\ buildpc = "start"
    /\ navHtml' = generate_nav_html(guides)
    /\ buildpc' = "nav"
    /\ UNCHANGED <<guides, disk, sections, markdownData, idVars, escVars, pkgVars, pageVars>>

\* the welcome section and the loop adding one empty section per guide
EmitSections ==
    /\ buildpc = "nav"
    /\ sections' = guide_sections(guides)
    /\ buildpc' = "sections"
    /\ UNCHANGED <<guides, disk, navHtml, markdownData, idVars, escVars, pkgVars, pageVars>>

\* html += generate_markdown_data(GUIDES, base_dir)
EmitMarkdownData ==
    /\ buildpc = "sections"
    /\ markdownData' = generate_markdown_data(guides, disk)
    /\ buildpc' = "data"
    /\ UNCHANGED <<guides, disk, navHtml, sections, idVars, escVars, pkgVars, pageVars>>

\* the page is written and generate_html returns
WriteHtml ==
    /\ buildpc = "data"
    /\ buildpc' = "done"
    /\ UNCHANGED <<guides, disk, navHtml, sections, markdownData, idVars, escVars, pkgVars, pageVars>>

NextBuild == EmitNav \/ EmitSections \/ EmitMarkdownData \/ WriteHtml

SpecBuild == InitBuild /\ [][NextBuild]_vars

----------------------------------------------------------------------------
(* Claims about a build run (SpecBuild) *)

Entries == all_guides(guides)

MissingFiles == { f \in RegisteredFiles(guides) : ~disk[f].exists }

\* the identifier of entry i as the page carries it: the id of its section
EntryId(i) == sections[i + 1].id

\* the docs trees of the runs in which no file is missing: the missing file
\* m holds some text, every other file is as it is
FullDisks(m) ==
    { [disk EXCEPT ![m] = [exists |-> TRUE, text |-> t]] : t \in FileTexts }

\* the key k is in the content map of both runs with the same escaped
\* text, or in neither
SameAsIn(full, k) ==
    /\ HasKey(markdownData, k) <=> HasKey(full, k)
    /\ HasKey(markdownData, k) => ValueOf(markdownData, k) = ValueOf(full, k)

\* the page has the navigation link and the empty section of entry i
LinkAndEmptySection(i) ==
    /\ Len(navHtml) = Len(Entries)
    /\ Len(sections) = Len(Entries) + 1
    /\ navHtml[i].href = navHtml[i].data_guide
    /\ navHtml[i].href = nav_guide_id(Entries[i].category, Entries[i].file)
    /\ sections[i + 1].empty

\* C5 as stated: with exactly one registered file missing the run
\* completes, the content map has no key for that entry's identifier, has
\* every other entry's key and escaped text as in a run where no file is
\* missing, and the page has the link and the empty section of the entry.
C5_MissingFileOmitted ==
    (buildpc = "done" /\ Cardinality(MissingFiles) = 1) =>
        \A m \in MissingFiles : \A i \in 1..Len(Entries) :
            IF Entries[i].file = m
            THEN /\ ~HasKey(markdownData, EntryId(i))
                 /\ LinkAndEmptySection(i)
            ELSE \A d \in FullDisks(m) :
                    SameAsIn(generate_markdown_data(guides, d), EntryId(i))

\* the identifiers of the entries whose file is m
IdsOf(m) == { EntryId(i) : i \in { j \in 1..Len(Entries) : Entries[j].file = m } }

\* some entry with a readable, non-empty file other than m has identifier k
SharedWithReadable(m, k) ==
    \E j \in 1..Len(Entries) :
        /\ Entries[j].file # m
        /\ EntryId(j) = k
        /\ Truthy(read_file(disk, Entries[j].file))

\* C5 amended: with exactly one registered file missing the run completes
\* and the page has the link and the empty section of the entry; the
\* content map has no key for the entry's identifier unless another entry
\* with a readable non-empty file has the same identifier, and every other
\* entry whose identifier is not the missing entry's has its key and
\* escaped text as in a run where no file is missing.
C5_MissingFileOmittedUnlessShared ==
    (buildpc = "done" /\ Cardinality(MissingFiles) = 1) =>
        \A m \in MissingFiles : \A i \in 1..Len(Entries) :
            IF Entries[i].file = m
            THEN /\ HasKey(markdownData, EntryId(i)) => SharedWithReadable(m, EntryId(i))
                 /\ LinkAndEmptySection(i)
            ELSE EntryId(i) \notin IdsOf(m) =>
                    \A d \in FullDisks(m) :
                        SameAsIn(generate_markdown_data(guides, d), EntryId(i))

C5_Witness ==
    /\ buildpc = "done"
    /\ Cardinality(MissingFiles) = 1
    /\ \E i, j \in 1..Len(Entries) :
          /\ Entries[i].file \in MissingFiles
          /\ ~HasKey(markdownData, EntryId(i))
          /\ Entries[j].file \notin MissingFiles
          /\ HasKey(markdownData, EntryId(j))
          /\ ValueOf(markdownData, EntryId(j)) =
                 Backslash \o Backtick \o Backslash \o DollarBrace

----------------------------------------------------------------------------
(* SpecEsc: a text is escaped by escape_for_js, embedded between the        *)
(* backticks of a template literal of the page, and evaluated there.        *)

EscAlphabet == { "\\", "BACKTICK", "$", "{", "a" }

EscTexts == SeqsUpTo(EscAlphabet, MaxTextLen)

Broken == [ok |-> FALSE, text |-> <<>>]

\* evaluation of the body s of a template literal from position i: a
\* backslash makes the next character literal, a bare backtick ends the
\* literal early, a bare "${" starts a substitution, and a backslash at
\* the very end escapes the closing backtick
RECURSIVE TemplateFrom(_, _)
TemplateFrom(s, i) ==
    IF i > Len(s) THEN [ok |-> TRUE, text |-> <<>>]
    ELSE IF s[i] = "\\"
         THEN IF i = Len(s) THEN Broken
              ELSE LET rest == TemplateFrom(s, i + 2)
                   IN  [ok |-> rest.ok, text |-> <<s[i + 1]>> \o rest.text]
    ELSE IF s[i] = "BACKTICK" THEN Broken
    ELSE IF StartsWithAt(s, DollarBrace, i) THEN Broken
    ELSE LET rest == TemplateFrom(s, i + 1)
         IN  [ok |-> rest.ok, text |-> <<s[i]>> \o rest.text]

\* the string the page's script gets for the literal with body s
TemplateValue(s) ==
    LET v == TemplateFrom(s, 1)
    IN  IF v.ok THEN v ELSE Broken

InitEsc ==
    /\ content \in EscTexts
    /\ escaped = <<>>
    /\ cooked = Broken
    /\ escpc = "read"
    /\ IdleId /\ IdleBuild /\ IdlePkg /\ IdlePage

\* escaped_content = escape_for_js(content)
Escape ==
    /\ escpc = "read"
    /\ escaped' = escape_for_js(Some(content))
    /\ escpc' = "escaped"
    /\ UNCHANGED <<content, cooked, idVars, buildVars, pkgVars, pageVars>>

\* the browser evaluates the literal the page embeds
Evaluate ==
    /\ escpc = "escaped"
    /\ cooked' = TemplateValue(escaped)
    /\ escpc' = "cooked"
    /\ UNCHANGED <<content, escaped, idVars, buildVars, pkgVars, pageVars>>

NextEsc == Escape \/ Evaluate

SpecEsc == InitEsc /\ [][NextEsc]_vars

\* C6: evaluating the escaped text as the body of a template literal gives
\* the original text back, and the escaped text holds no bare backtick and
\* no bare "${" (the literal is not broken).
C6_EscapeRoundTrip ==
    escpc = "cooked" => cooked.ok /\ cooked.text = content

C6_Witness ==
    /\ escpc = "cooked"
    /\ content = Backslash \o Backtick \o DollarBrace
    /\ escaped = Backslash \o Backslash \o Backslash \o Backtick \o Backslash \o DollarBrace
    /\ cooked.text = content

----------------------------------------------------------------------------
(* SpecPkg: one run of create_tester_package over a project directory.     *)
(* A tree is a set of nodes [path, kind]; a path is a sequence of names.   *)

File(path) == [path |-> path, kind |-> "file"]
Dir(path) == [path |-> path, kind |-> "dir"]

\* package_name, the name of the staging directory and the archive's root
PackageName == "bitcoin-wallet-v0.12.0-testing-package-YYYYMMDD"

\* what dist/ may hold: files, a directory with a file, an empty directory
DistTrees ==
    { t \in SUBSET { File(<<"manifest.json">>), Dir(<<"assets">>),
                     File(<<"assets", "popup.js">>), Dir(<<"_locales">>) } :
        File(<<"assets", "popup.js">>) \in t => Dir(<<"assets">>) \in t }

GuideHtml == "TESTING_GUIDES/testing-guide.html"

launchers == << "open-guide.sh", "open-guide.bat" >>

docs ==
    << [src |-> "TESTING_GUIDES/QUICK_START.md", dest |-> "QUICK_START.md"],
       [src |-> "TESTING_GUIDES/HTML_GUIDE_README.md", dest |-> "HTML_GUIDE_README.md"],
       [src |-> "README.md", dest |-> "PROJECT_README.md"],
       [src |-> "CHANGELOG.md", dest |-> "CHANGELOG.md"] >>

LauncherSrc(name) ==
    IF name = "open-guide.sh" THEN "TESTING_GUIDES/open-guide.sh"
    ELSE "TESTING_GUIDES/open-guide.bat"

\* the optional input files of the project directory
OptionalInputs ==
    {GuideHtml} \cup { LauncherSrc(launchers[i]) : i \in 1..Len(launchers) }
        \cup { docs[i].src : i \in 1..Len(docs) }

\* a staging directory left by an earlier run
StaleTrees == { {}, { File(<<"TESTER_README.md">>) } }

OldEntries == { <<PackageName, "TESTER_README.md">> }

InitPkg ==
    /\ distExists \in BOOLEAN
    /\ distNodes \in (IF distExists THEN DistTrees ELSE { {} })
    /\ inputs \in SUBSET OptionalInputs
    /\ stagingExists \in BOOLEAN
    /\ stagingNodes \in (IF stagingExists THEN StaleTrees ELSE { {} })
    /\ execBits = {}
    /\ zipExists \in BOOLEAN
    /\ zipOpen = FALSE
    /\ zipEntries = (IF zipExists THEN OldEntries ELSE {})
    /\ zipGen = (IF zipExists THEN "old" ELSE "none")
    /\ staging0 = [exists |-> stagingExists, nodes |-> stagingNodes]
    /\ zip0 = [exists |-> zipExists, entries |-> zipEntries, gen |-> zipGen]
    /\ stagedAtZip = {}
    /\ pkgpc = "start"
    /\ result = "running"
    /\ IdleId /\ IdleBuild /\ IdleEsc /\ IdlePage

PkgFrame == UNCHANGED <<distExists, distNodes, inputs, staging0, zip0,
                        idVars, buildVars, escVars, pageVars>>

\* if package_dir.exists(): shutil.rmtree(package_dir); package_dir.mkdir()
PrepareStaging ==
    /\ pkgpc = "start"
    /\ stagingExists' = TRUE
    /\ stagingNodes' = {}
    /\ pkgpc' = "check_dist"
    /\ PkgFrame
    /\ UNCHANGED <<execBits, zipExists, zipOpen, zipEntries, zipGen, stagedAtZip, result>>

\* mutant: the return None is missing, the run goes on without the extension
DistMissing_NoReturn ==
    /\ pkgpc = "check_dist"
    /\ ~distExists
    /\ pkgpc' = "guide"
    /\ PkgFrame
    /\ UNCHANGED <<stagingExists, stagingNodes, execBits, zipExists, zipOpen,
                   zipEntries, zipGen, stagedAtZip, result>>

\* if not dist_dir.exists(): ... return None
DistMissing ==
    /\ pkgpc = "check_dist"
    /\ ~distExists
    /\ result' = "None"
    /\ pkgpc' = "returned"
    /\ PkgFrame
    /\ UNCHANGED <<stagingExists, stagingNodes, execBits, zipExists, zipOpen,
                   zipEntries, zipGen, stagedAtZip>>

\* shutil.copytree(dist_dir, package_dir / 'extension')
CopyExtension ==
    /\ pkgpc = "check_dist"
    /\ distExists
    /\ stagingNodes' = stagingNodes \cup { Dir(<<"extension">>) }
           \cup { [path |-> <<"extension">> \o n.path, kind |-> n.kind] : n \in distNodes }
    /\ pkgpc' = "guide"
    /\ PkgFrame
    /\ UNCHANGED <<stagingExists, execBits, zipExists, zipOpen, zipEntries, zipGen,
                   stagedAtZip, result>>

\* copy testing-guide.html if it exists, else warn
CopyGuide ==
    /\ pkgpc = "guide"
    /\ stagingNodes' = (IF GuideHtml \in inputs
                        THEN stagingNodes \cup { File(<<"testing-guide.html">>) }
                        ELSE stagingNodes)
    /\ pkgpc' = "launchers"
    /\ PkgFrame
    /\ UNCHANGED <<stagingExists, execBits, zipExists, zipOpen, zipEntries, zipGen,
                   stagedAtZip, result>>

\* for launcher in launchers: copy if it exists, chmod 0o755 the .sh
CopyLaunchers ==
    /\ pkgpc = "launchers"
    /\ LET present == { i \in 1..Len(launchers) : LauncherSrc(launchers[i]) \in inputs }
       IN  /\ stagingNodes' = stagingNodes \cup { File(<<launchers[i]>>) : i \in present }
           /\ execBits' = execBits \cup
                 { <<launchers[i]>> : i \in { j \in present : launchers[j] = "open-guide.sh" } }
    /\ pkgpc' = "docs"
    /\ PkgFrame
    /\ UNCHANGED <<stagingExists, zipExists, zipOpen, zipEntries, zipGen, stagedAtZip, result>>

\* mutant: the loop over docs ends at the first file that is absent
CopyDocs_StopAtFirstMissing ==
    /\ pkgpc = "docs"
    /\ stagingNodes' = stagingNodes \cup
           { File(<<docs[i].dest>>) :
               i \in { j \in 1..Len(docs) : \A k \in 1..j : docs[k].src \in inputs } }
    /\ pkgpc' = "readme"
    /\ PkgFrame
    /\ UNCHANGED <<stagingExists, execBits, zipExists, zipOpen, zipEntries, zipGen,
                   stagedAtZip, result>>

\* for src_path, dest_name in docs: copy if it exists
CopyDocs ==
    /\ pkgpc = "docs"
    /\ stagingNodes' = stagingNodes \cup
           { File(<<docs[i].dest>>) : i \in { j \in 1..Len(docs) : docs[j].src \in inputs } }
    /\ pkgpc' = "readme"
    /\ PkgFrame
    /\ UNCHANGED <<stagingExists, execBits, zipExists, zipOpen, zipEntries, zipGen,
                   stagedAtZip, result>>

\* TESTER_README.md is written into the staging directory
WriteReadme ==
    /\ pkgpc = "readme"
    /\ stagingNodes' = stagingNodes \cup { File(<<"TESTER_README.md">>) }
    /\ pkgpc' = "gitignore"
    /\ PkgFrame
    /\ UNCHANGED <<stagingExists, execBits, zipExists, zipOpen, zipEntries, zipGen,
                   stagedAtZip, result>>

\* .gitignore is written into the staging directory
WriteGitignore ==
    /\ pkgpc = "gitignore"
    /\ stagingNodes' = stagingNodes \cup { File(<<".gitignore">>) }
    /\ pkgpc' = "old_zip"
    /\ PkgFrame
    /\ UNCHANGED <<stagingExists, execBits, zipExists, zipOpen, zipEntries, zipGen,
                   stagedAtZip, result>>

\* if zip_path.exists(): os.remove(zip_path)
RemoveOldZip ==
    /\ pkgpc = "old_zip"
    /\ zipExists' = FALSE
    /\ zipEntries' = {}
    /\ zipGen' = "none"
    /\ pkgpc' = "zip_open"
    /\ PkgFrame
    /\ UNCHANGED <<stagingExists, stagingNodes, execBits, zipOpen, stagedAtZip, result>>

\* with zipfile.ZipFile(zip_path, 'w', ZIP_DEFLATED) as zipf: the archive
\* is created, open and empty
OpenZip ==
    /\ pkgpc = "zip_open"
    /\ zipExists' = TRUE
    /\ zipOpen' = TRUE
    /\ zipEntries' = {}
    /\ zipGen' = "new"
    /\ stagedAtZip' = stagingNodes
    /\ pkgpc' = "zip_walk"
    /\ PkgFrame
    /\ UNCHANGED <<stagingExists, stagingNodes, execBits, result>>

\* os.walk(package_dir): the paths of the files of every directory of the
\* tree (the names in dirs are walked into, not yielded as files)
WalkFiles(tree) == { n.path : n \in { x \in tree : x.kind = "file" } }

\* arcname = file_path.relative_to(package_dir.parent)
arcname(path) == <<PackageName>> \o path

\* the loop writing every walked file into the open archive
WriteZipEntries ==
    /\ pkgpc = "zip_walk"
    /\ zipOpen
    /\ zipEntries' = zipEntries \cup { arcname(f) : f \in WalkFiles(stagingNodes) }
    /\ pkgpc' = "zip_close"
    /\ PkgFrame
    /\ UNCHANGED <<stagingExists, stagingNodes, execBits, zipExists, zipOpen, zipGen,
                   stagedAtZip, result>>

\* the end of the with block closes the archive
CloseZip ==
    /\ pkgpc = "zip_close"
    /\ zipOpen' = FALSE
    /\ pkgpc' = "cleanup"
    /\ PkgFrame
    /\ UNCHANGED <<stagingExists, stagingNodes, execBits, zipExists, zipEntries, zipGen,
                   stagedAtZip, result>>

\* mutant: the cleanup step does nothing
Cleanup_Skipped ==
    /\ pkgpc = "cleanup"
    /\ pkgpc' = "return"
    /\ PkgFrame
    /\ UNCHANGED <<stagingExists, stagingNodes, execBits, zipExists, zipOpen,
                   zipEntries, zipGen, stagedAtZip, result>>

\* shutil.rmtree(package_dir)
Cleanup ==
    /\ pkgpc = "cleanup"
    /\ stagingExists' = FALSE
    /\ stagingNodes' = {}
    /\ execBits' = {}
    /\ pkgpc' = "return"
    /\ PkgFrame
    /\ UNCHANGED <<zipExists, zipOpen, zipEntries, zipGen, stagedAtZip, result>>

\* return zip_path
ReturnZipPath ==
    /\ pkgpc = "return"
    /\ result' = "zip_path"
    /\ pkgpc' = "returned"
    /\ PkgFrame
    /\ UNCHANGED <<stagingExists, stagingNodes, execBits, zipExists, zipOpen,
                   zipEntries, zipGen, stagedAtZip>>

NextPkg ==
    \/ PrepareStaging
    \/ DistMissing
    \/ CopyExtension
    \/ CopyGuide
    \/ CopyLaunchers
    \/ CopyDocs
    \/ WriteReadme
    \/ WriteGitignore
    \/ RemoveOldZip
    \/ OpenZip
    \/ WriteZipEntries
    \/ CloseZip
    \/ Cleanup
    \/ ReturnZipPath

SpecPkg == InitPkg /\ [][NextPkg]_vars

----------------------------------------------------------------------------
(* Claims about a packaging run (SpecPkg) *)

ZipUntouched ==
    /\ zipExists = zip0.exists
    /\ zipEntries = zip0.entries
    /\ zipGen = zip0.gen
    /\ ~zipOpen

\* C7: when dist/ does not exist, create_tester_package returns None and
\* at no point of the run is a zip archive created, removed or replaced.
C7_NoArchiveWhenDistMissing ==
    ~distExists =>
        /\ ZipUntouched
        /\ result # "zip_path"
        /\ pkgpc = "returned" => result = "None"

C7_Witness ==
    /\ ~distExists
    /\ pkgpc = "returned"
    /\ result = "None"
    /\ zip0.exists
    /\ zipGen = "old"

\* C8: when dist/ does not exist, the run aborts before any staging: the
\* staging directory is neither created nor deleted, so after the aborted
\* run it is as it was before the run.
C8_NoStagingWhenDistMissing ==
    (~distExists /\ pkgpc = "returned") =>
        /\ stagingExists = staging0.exists
        /\ stagingNodes = staging0.nodes

HasChild(tree, d) ==
    \E n \in tree :
        /\ Len(n.path) = Len(d.path) + 1
        /\ SubSeq(n.path, 1, Len(d.path)) = d.path

\* what a tree's layout consists of: its files and its empty directories
\* (a directory that holds something is given by the paths of what it holds)
LayoutEntries(tree) ==
    { n.path : n \in { x \in tree : x.kind = "file" \/ ~HasChild(tree, x) } }

\* C9: after a successful run the archive's entries are exactly the entries
\* of the staging tree as it was when compression started, each under the
\* package folder name.
C9_ArchiveMirrorsStaging ==
    result = "zip_path" =>
        /\ zipEntries = { arcname(e) : e \in LayoutEntries(stagedAtZip) }
        /\ \A e \in zipEntries : e[1] = PackageName

ArchiveComplete ==
    /\ zipExists
    /\ ~zipOpen
    /\ zipGen = "new"
    /\ zipEntries = { arcname(f) : f \in WalkFiles(stagedAtZip) }

PackagedAs(src) ==
    IF src = GuideHtml THEN "testing-guide.html"
    ELSE IF \E i \in 1..Len(launchers) : LauncherSrc(launchers[i]) = src
         THEN (CHOOSE n \in { launchers[i] : i \in 1..Len(launchers) } : LauncherSrc(n) = src)
         ELSE (CHOOSE d \in { docs[i] : i \in 1..Len(docs) } : d.src = src).dest

\* C11: with dist/ present, whatever subset of the seven optional inputs is
\* absent, the run does not end without the archive: it returns the archive
\* path, the archive exists, and an optional input is in the archive exactly
\* when it is present, whichever other inputs are absent.
C11_OptionalInputsIndependent ==
    distExists =>
        /\ result # "None"
        /\ pkgpc = "returned" => result = "zip_path"
        /\ result = "zip_path" =>
              /\ zipExists /\ zipGen = "new"
              /\ \A src \in OptionalInputs :
                    (src \in inputs) <=> (arcname(<<PackagedAs(src)>>) \in zipEntries)

C11_Witness ==
    /\ distExists
    /\ result = "zip_path"
    /\ inputs = { "TESTING_GUIDES/open-guide.bat", "README.md", "CHANGELOG.md" }
    /\ arcname(<<"PROJECT_README.md">>) \in zipEntries
    /\ arcname(<<"open-guide.bat">>) \in zipEntries
    /\ arcname(<<"testing-guide.html">>) \notin zipEntries
    /\ arcname(<<"QUICK_START.md">>) \notin zipEntries

----------------------------------------------------------------------------
(* Claims about the content map of a build run (SpecBuild) *)

Readable(i) == disk[Entries[i].file].exists

EscapedText(i) == escape_for_js(Some(disk[Entries[i].file].text))

SharesId(i) == \E j \in 1..Len(Entries) : j # i /\ EntryId(j) = EntryId(i)

\* C15: after the run, every registry entry whose file exists, whatever
\* the file holds (an empty file included), has its identifier as a key of
\* the content map, and (no other entry having the same identifier) the
\* value of that key is the escaped text of the file.
C15_ReadableFileHasKey ==
    buildpc = "done" =>
        \A i \in 1..Len(Entries) :
            Readable(i) =>
                /\ HasKey(markdownData, EntryId(i))
                /\ ~SharesId(i) => ValueOf(markdownData, EntryId(i)) = EscapedText(i)

LastWithId(j) == \A k \in (j + 1)..Len(Entries) : EntryId(k) # EntryId(j)

\* C16: after the run, when two registry entries have the same identifier
\* and both files are readable, the content map has that identifier as a
\* key once, and its value is the escaped text of the one processed last
\* in registry order.
C16_LastEntryWins ==
    buildpc = "done" =>
        \A i, j \in 1..Len(Entries) :
            (i < j /\ EntryId(i) = EntryId(j) /\ LastWithId(j)
                   /\ Readable(i) /\ Readable(j)) =>
                /\ HasKey(markdownData, EntryId(j))
                /\ ValueOf(markdownData, EntryId(j)) = EscapedText(j)

----------------------------------------------------------------------------
(* SpecPage: the script of the emitted page, run in a browser.  The page   *)
(* is the output of a build (navHtml, sections, markdownData); a step is   *)
(* one event handler run to completion, or one act of the user.  The       *)
(* search box only hides navigation entries and is left out.               *)

MaxEvents == 2

\* the elements before the sections that carry an id, in document order
SidebarId == <<"s","i","d","e","b","a","r">>
SearchInputId == <<"s","e","a","r","c","h","-","i","n","p","u","t">>
ContentId == <<"c","o","n","t","e","n","t">>
OtherIds == << SidebarId, SearchInputId, ContentId >>

\* the targets of the first two static links of the welcome section
ReadmeLink == <<"r","e","a","d","m","e">>
MasterLink == <<"m","a","s","t","e","r","-","t","e","s","t","i","n","g","-",
                "g","u","i","d","e">>
WelcomeLinks == { ReadmeLink, MasterLink }

\* the registered files of the pages explored, and what they hold: only
\* white space; a checked checkbox and links; an unchecked checkbox.
\* The checkboxes are inputs the user can toggle.
DotSlashA == DotSlash \o LowerA
PageFiles == { ReadmeMd, DotSlashA }
PageTexts == { <<" ">>, <<"[x]", "#">>, <<"[ ]">> }

PageRegistries ==
    { [core |-> c, feature_tests |-> <<>>, workflows |-> <<>>] :
        c \in SeqsUpTo(PageFiles, MaxEntries) \ { <<>> } }

PageDisks(g) ==
    { d \in [PageFiles -> {Absent} \cup { [exists |-> TRUE, text |-> t] : t \in PageTexts }] :
        \A f \in PageFiles \ RegisteredFiles(g) : d[f] = Absent }

\* the identifiers a link of a rendered document or the address bar may name
LinkTargets == { WelcomeId, ReadmeLink, <<"a">>, MasterLink, SidebarId, ContentId }
Fragments == LinkTargets \cup { <<>> }

\* the hrefs ending in .md a link of a rendered document may carry
MdHrefs == { ReadmeMd, DotSlashA, ContentId \o MdExt }

\* JavaScript s.replace(old, new) with a string pattern: the first
\* occurrence only
ReplaceFirst(s, old, new) ==
    IF Contains(s, old)
    THEN LET i == CHOOSE k \in 1..Len(s) :
                      /\ StartsWithAt(s, old, k)
                      /\ \A j \in 1..(k - 1) : ~StartsWithAt(s, old, j)
         IN  SubSeq(s, 1, i - 1) \o new \o SubSeq(s, i + Len(old), Len(s))
    ELSE s

\* the targetId the handler of a link to a .md file computes
md_link_target(href) ==
    ReplaceFirst(
        Lower(ReplaceFirst(ReplaceFirst(ReplaceFirst(ReplaceFirst(
            href, MdExt, <<>>), DotDotSlash, <<>>), DotSlash, <<>>), Slash, Dash)),
        FeatureTestsLower, FeatureLower)

\* marked.parse(markdown), as far as the script looks at its result: is
\* the HTML blank, which checkbox inputs does it hold (each checked or not
\* in the source), does it hold links (the token # stands for links with
\* an href starting with # and links with an href ending in .md)
IsBox(c) == c \in { "[ ]", "[x]" }

marked_parse(markdown) ==
    LET boxes == SelectSeq(markdown, IsBox)
    IN  [blank |-> \A i \in 1..Len(markdown) : markdown[i] = " ",
         checkboxes |-> [k \in 1..Len(boxes) |-> boxes[k] = "[x]"],
         links |-> \E i \in 1..Len(markdown) : markdown[i] = "#"]

EmptyHtml == [blank |-> TRUE, checkboxes |-> <<>>, links |-> FALSE]
WelcomeHtml == [blank |-> FALSE, checkboxes |-> <<>>, links |-> FALSE]

\* markdownContent[sectionId]: the value of the template literal of the
\* key, or undefined (as falsy as the empty text) without the key
markdownContent(sectionId) ==
    IF HasKey(markdownData, sectionId)
    THEN TemplateValue(ValueOf(markdownData, sectionId)).text
    ELSE <<>>

\* document.getElementById(id): the first element with the id in document
\* order, the sidebar, search input and main element before the sections
NoElement == [kind |-> "none", index |-> 0]

getElementById(id) ==
    IF id = <<>> THEN NoElement
    ELSE IF \E j \in 1..Len(OtherIds) : OtherIds[j] = id
         THEN [kind |-> "other", index |-> 0]
    ELSE IF \E i \in 1..Len(sections) : sections[i].id = id
         THEN [kind |-> "section",
               index |-> CHOOSE i \in 1..Len(sections) :
                            /\ sections[i].id = id
                            /\ \A j \in 1..(i - 1) : sections[j].id # id]
    ELSE NoElement

\* document.querySelector('[data-guide="..."]'): the first such link
LinksWithGuide(id) ==
    { i \in 1..Len(navHtml) :
        /\ navHtml[i].data_guide = id
        /\ \A j \in 1..(i - 1) : navHtml[j].data_guide # id }

\* the key of a checkbox in localStorage
DigitChar == << "0", "1", "2", "3", "4", "5", "6", "7", "8", "9" >>

checkboxId(sectionId, index) ==
    sectionId \o <<"-","c","h","e","c","k","b","o","x","-">> \o << DigitChar[index + 1] >>

\* localStorage.getItem and setItem
getItem(store, key) == IF key \in DOMAIN store THEN store[key] ELSE "null"

setItem(store, key, value) ==
    [k \in DOMAIN store \cup {key} |-> IF k = key THEN value ELSE store[k]]

\* the part of the page the two functions of the script work on
PageState ==
    [activeSections |-> activeSections, activeLinks |-> activeLinks,
     activeOther |-> activeOther, innerHTML |-> innerHTML, checked |-> checked,
     renderCount |-> renderCount, hash |-> hash, pendingHash |-> pendingHash]

\* renderMarkdown(sectionId).  For an element that is not a section the
\* container is missing (sidebar, search input) or is the welcome text, the
\* first .markdown-body of the main element, and the function returns.
renderMarkdown(p, sectionId) ==
    LET section == getElementById(sectionId)
    IN  IF section.kind = "none" \/ sectionId = WelcomeId THEN p
        ELSE IF section.kind = "other" THEN p
        ELSE IF ~p.innerHTML[section.index].blank THEN p
        ELSE LET markdown == markdownContent(sectionId)
                 i == section.index
             IN  IF markdown = <<>> THEN p
                 ELSE LET html == marked_parse(markdown)
                      IN  [p EXCEPT
                             !.innerHTML[i] = html,
                             !.checked[i] =
                                 [k \in 1..Len(html.checkboxes) |->
                                     IF getItem(storage, checkboxId(sectionId, k - 1)) = "true"
                                     THEN TRUE
                                     ELSE html.checkboxes[k]],
                             !.renderCount[i] = @ + 1]

\* mutant: every assignment to window.location.hash queues a hashchange
\* event, also that of the current fragment
showSection_AlwaysQueues(p, sectionId) ==
    LET cleared == [p EXCEPT !.activeSections = {}, !.activeLinks = {}]
        targetSection == getElementById(sectionId)
    IN  IF targetSection.kind = "none" THEN cleared
        ELSE LET r == renderMarkdown(cleared, sectionId)
             IN  [r EXCEPT
                    !.activeSections =
                        IF targetSection.kind = "section" THEN {targetSection.index} ELSE {},
                    !.activeOther =
                        IF targetSection.kind = "other" THEN @ \cup {sectionId} ELSE @,
                    !.activeLinks = LinksWithGuide(sectionId),
                    !.hash = sectionId,
                    !.pendingHash = @ + 1]

\* showSection(sectionId); an assignment to window.location.hash of a
\* value other than the current fragment queues one hashchange event
showSection(p, sectionId) ==
    LET cleared == [p EXCEPT !.activeSections = {}, !.activeLinks = {}]
        targetSection == getElementById(sectionId)
    IN  IF targetSection.kind = "none" THEN cleared
        ELSE LET r == renderMarkdown(cleared, sectionId)
             IN  [r EXCEPT
                    !.activeSections =
                        IF targetSection.kind = "section" THEN {targetSection.index} ELSE {},
                    !.activeOther =
                        IF targetSection.kind = "other" THEN @ \cup {sectionId} ELSE @,
                    !.activeLinks = LinksWithGuide(sectionId),
                    !.hash = sectionId,
                    !.pendingHash = IF sectionId = p.hash THEN @ ELSE @ + 1]

\* the page takes the state r
Becomes(r) ==
    /\ activeSections' = r.activeSections
    /\ activeLinks' = r.activeLinks
    /\ activeOther' = r.activeOther
    /\ innerHTML' = r.innerHTML
    /\ checked' = r.checked
    /\ renderCount' = r.renderCount
    /\ hash' = r.hash
    /\ pendingHash' = r.pendingHash

PageFrame == UNCHANGED <<idVars, buildVars, escVars, pkgVars>>

\* the document as parsed: the welcome section active, the others empty
InitPage ==
    /\ guides \in PageRegistries
    /\ disk \in PageDisks(guides)
    /\ navHtml = generate_nav_html(guides)
    /\ sections = guide_sections(guides)
    /\ markdownData = generate_markdown_data(guides, disk)
    /\ buildpc = "done"
    /\ pagepc = "loading"
    /\ hash \in Fragments
    /\ pendingHash = 0
    /\ activeSections = { i \in 1..Len(sections) : sections[i].active }
    /\ activeLinks = {}
    /\ activeOther = {}
    /\ innerHTML = [i \in 1..Len(sections) |->
                       IF sections[i].empty THEN EmptyHtml ELSE WelcomeHtml]
    /\ checked = [i \in 1..Len(sections) |-> <<>>]
    /\ storage = <<>>
    /\ renderCount = [i \in 1..Len(sections) |-> 0]
    /\ shown = <<>>
    /\ calls = 0
    /\ last = [kind |-> "load", id |-> hash, index |-> 0]
    /\ events = 0
    /\ IdleId /\ IdleEsc /\ IdlePkg

\* the DOMContentLoaded handler
DOMContentLoaded ==
    /\ pagepc = "loading"
    /\ LET sectionId == IF hash # <<>> THEN hash ELSE WelcomeId
       IN  /\ Becomes(showSection(PageState, sectionId))
           /\ shown' = <<sectionId>>
    /\ calls' = calls + 1
    /\ pagepc' = "ready"
    /\ PageFrame
    /\ UNCHANGED <<storage, last, events>>

\* the hashchange handler, run for one queued event
HashChange ==
    /\ pagepc = "ready"
    /\ pendingHash > 0
    /\ LET p == [PageState EXCEPT !.pendingHash = @ - 1]
       IN  IF hash # <<>>
           THEN /\ Becomes(showSection(p, hash))
                /\ shown' = <<hash>>
                /\ calls' = calls + 1
           ELSE /\ Becomes(p)
                /\ shown' = <<>>
                /\ calls' = calls
    /\ PageFrame
    /\ UNCHANGED <<pagepc, storage, last, events>>

\* the click handler of navigation link i
ClickNav(i) ==
    /\ pagepc = "ready"
    /\ events < MaxEvents
    /\ LET guideId == navHtml[i].data_guide
       IN  /\ Becomes(showSection(PageState, guideId))
           /\ shown' = <<guideId>>
           /\ last' = [kind |-> "nav", id |-> guideId, index |-> i]
    /\ calls' = calls + 1
    /\ events' = events + 1
    /\ PageFrame
    /\ UNCHANGED <<pagepc, storage>>

\* the click handler of a link to #targetId in the rendered text of the
\* section on display
ClickContentLink(targetId) ==
    /\ pagepc = "ready"
    /\ events < MaxEvents
    /\ \E i \in activeSections : innerHTML[i].links
    /\ IF getElementById(targetId).kind # "none"
       THEN /\ Becomes(showSection(PageState, targetId))
            /\ shown' = <<targetId>>
            /\ calls' = calls + 1
       ELSE /\ Becomes(PageState)
            /\ shown' = <<>>
            /\ calls' = calls
    /\ last' = [kind |-> "link", id |-> targetId, index |-> 0]
    /\ events' = events + 1
    /\ PageFrame
    /\ UNCHANGED <<pagepc, storage>>

\* the click handler of a link to a .md file in the rendered text of the
\* section on display
ClickMdLink(href) ==
    /\ pagepc = "ready"
    /\ events < MaxEvents
    /\ \E i \in activeSections : innerHTML[i].links
    /\ LET targetId == md_link_target(href)
       IN  /\ IF getElementById(targetId).kind # "none"
              THEN /\ Becomes(showSection(PageState, targetId))
                   /\ shown' = <<targetId>>
                   /\ calls' = calls + 1
              ELSE /\ Becomes(PageState)
                   /\ shown' = <<>>
                   /\ calls' = calls
           /\ last' = [kind |-> "md_link", id |-> targetId, index |-> 0]
    /\ events' = events + 1
    /\ PageFrame
    /\ UNCHANGED <<pagepc, storage>>

\* the user follows static link h of the welcome section, which is on
\* display; the link has no handler and the browser moves to the fragment
ClickWelcomeLink(h) ==
    /\ pagepc = "ready"
    /\ events < MaxEvents
    /\ 1 \in activeSections
    /\ h # hash
    /\ hash' = h
    /\ pendingHash' = pendingHash + 1
    /\ shown' = <<>>
    /\ last' = [kind |-> "fragment", id |-> h, index |-> 0]
    /\ events' = events + 1
    /\ PageFrame
    /\ UNCHANGED <<pagepc, activeSections, activeLinks, activeOther, innerHTML,
                   checked, storage, renderCount, calls>>

\* the user moves to fragment h by the address bar, back or forward
ChangeFragment(h) ==
    /\ pagepc = "ready"
    /\ events < MaxEvents
    /\ h # hash
    /\ hash' = h
    /\ pendingHash' = pendingHash + 1
    /\ shown' = <<>>
    /\ last' = [kind |-> "fragment", id |-> h, index |-> 0]
    /\ events' = events + 1
    /\ PageFrame
    /\ UNCHANGED <<pagepc, activeSections, activeLinks, activeOther, innerHTML,
                   checked, storage, renderCount, calls>>

\* the user toggles checkbox k of the section on display; its change
\* handler stores the new state
ToggleCheckbox(i, k) ==
    /\ pagepc = "ready"
    /\ events < MaxEvents
    /\ i \in activeSections
    /\ k \in 1..Len(checked[i])
    /\ checked' = [checked EXCEPT ![i][k] = ~@]
    /\ storage' = setItem(storage, checkboxId(sections[i].id, k - 1),
                          IF checked'[i][k] THEN "true" ELSE "false")
    /\ shown' = <<>>
    /\ events' = events + 1
    /\ PageFrame
    /\ UNCHANGED <<pagepc, hash, pendingHash, activeSections, activeLinks, activeOther,
                   innerHTML, renderCount, calls, last>>

\* the user reloads the page: the document is parsed anew with the
\* fragment of the address bar; localStorage is kept
Reload ==
    /\ pagepc = "ready"
    /\ events < MaxEvents
    /\ pagepc' = "loading"
    /\ pendingHash' = 0
    /\ activeSections' = { i \in 1..Len(sections) : sections[i].active }
    /\ activeLinks' = {}
    /\ activeOther' = {}
    /\ innerHTML' = [i \in 1..Len(sections) |->
                        IF sections[i].empty THEN EmptyHtml ELSE WelcomeHtml]
    /\ checked' = [i \in 1..Len(sections) |-> <<>>]
    /\ renderCount' = [i \in 1..Len(sections) |-> 0]
    /\ shown' = <<>>
    /\ last' = [kind |-> "load", id |-> hash, index |-> 0]
    /\ events' = events + 1
    /\ PageFrame
    /\ UNCHANGED <<hash, storage, calls>>

NextPage ==
    \/ DOMContentLoaded
    \/ HashChange
    \/ \E i \in 1..Len(navHtml) : ClickNav(i)
    \/ \E t \in LinkTargets : ClickContentLink(t)
    \/ \E href \in MdHrefs : ClickMdLink(href)
    \/ \E h \in WelcomeLinks : ClickWelcomeLink(h)
    \/ \E h \in Fragments : ChangeFragment(h)
    \/ \E i \in 1..Len(sections) : \E k \in 1..Len(checked[i]) : ToggleCheckbox(i, k)
    \/ Reload

SpecPage == InitPage /\ [][NextPage]_vars

----------------------------------------------------------------------------
(* Claims about the script of the emitted page (SpecPage) *)

\* no other section of the page has the id of section i
UniqueSectionId(i) ==
    \A j \in 1..Len(sections) : sections[j].id = sections[i].id => j = i

\* C12: after a click on the navigation link of an entry (whose section
\* id no other section has), the section of that entry is the only active
\* section; after a click on an in-content link whose target is the id of
\* a section, that section is the only active section.
C12_ClickShowsThatSection ==
    /\ (pagepc = "ready" /\ last.kind = "nav" /\ UniqueSectionId(last.index + 1)) =>
            activeSections = { last.index + 1 }
    /\ (pagepc = "ready" /\ last.kind \in {"link", "md_link"}
            /\ getElementById(last.id).kind = "section") =>
            activeSections = { getElementById(last.id).index }

\* the state the user last gave the checkbox with this key, as its change
\* handler stored it (the only writer of localStorage)
LastSetByUser(key) == storage[key] = "true"

\* C13: a checkbox of a rendered section that the user has ever toggled
\* shows, also after a reload and the next display of the section, the
\* state the user last set, kept in localStorage under the key
\* <sectionId>-checkbox-<index>.
C13_CheckboxShowsLastSetState ==
    pagepc = "ready" =>
        \A i \in 1..Len(sections) : \A k \in 1..Len(checked[i]) :
            LET key == checkboxId(sections[i].id, k - 1)
            IN  key \in DOMAIN storage => checked[i][k] = LastSetByUser(key)

\* every queued hashchange event has been handled
Quiescent == pagepc = "ready" /\ pendingHash = 0

LoadedEmptyShowsWelcome ==
    (pagepc = "ready" /\ last.kind = "load" /\ last.id = <<>>) => activeSections = {1}

FragmentOfSectionShowsIt ==
    (Quiescent /\ last.kind \in {"load", "fragment"}
        /\ getElementById(last.id).kind = "section") =>
            activeSections = { getElementById(last.id).index }

FragmentIsActiveSection ==
    Quiescent => \A i \in activeSections : hash = sections[i].id

\* C14: after a load with an empty fragment the welcome section is the
\* active one; after a load with, or a change to, a fragment that is the
\* id of a section, that section is the active one; and whenever every
\* navigation is completed the fragment is the id of the active section.
C14_FragmentInSync ==
    /\ LoadedEmptyShowsWelcome
    /\ FragmentOfSectionShowsIt
    /\ FragmentIsActiveSection

\* C17: since the page was loaded, the render step (marked.parse and the
\* attaching of the handlers) has run at most once for every section, and
\* not at all for the welcome section.
C17_RenderedAtMostOnce ==
    pagepc # "idle" =>
        /\ renderCount[1] = 0
        /\ \A i \in 1..Len(sections) : renderCount[i] <= 1

\* a step that called showSection with an id that is not the id of a section
ShowsNoSection == shown' # <<>> /\ getElementById(shown'[1]).kind # "section"

\* C18: at most one section is active in every reachable state; and a
\* showSection call with an id that names no section leaves no section
\* and no navigation link active, gives no element the active mark and
\* leaves the fragment as it is.
C18_UnknownIdShowsNothing ==
    /\ [](Cardinality(activeSections) <= 1)
    /\ [][ShowsNoSection =>
            /\ activeSections' = {}
            /\ activeLinks' = {}
            /\ activeOther' = activeOther
            /\ hash' = hash]_vars

\* C19: a run of the hashchange handler takes one event off the queue and
\* queues none (its showSection call assigns the fragment it has read), so
\* the queue empties after as many handler runs as it holds events; every
\* other step queues at most one event; and the showSection calls made and
\* still to come are at most two for every load and every act of the user.
C19_HashFeedbackTerminates ==
    /\ [][HashChange => pendingHash' = pendingHash - 1]_vars
    /\ [][pendingHash' <= pendingHash + 1]_vars
    /\ [](calls + pendingHash <= 2 * (events + 1))

\* a click on a navigation link has called showSection and queued an
\* event, the handler has called showSection again, and nothing is queued
C19_Witness ==
    /\ Quiescent
    /\ last.kind = "nav"
    /\ events = 1
    /\ calls = 4
    /\ activeSections = {2}
    /\ shown = << sections[2].id >>

====
